---- MODULE Spec2Model ----
(***************************************************************************)
(* login-ssh extension (azext_login_interactive_ssh/custom.py):            *)
(* validate_port (range check, bind probe, TIME_WAIT wait loop) and        *)
(* login_ssh (cache file workaround, environment toggle, scoped patches    *)
(* around the delegated login).  One call of login_ssh is modelled, one    *)
(* step per statement that reads or changes process state.                 *)
(***************************************************************************)
EXTENDS Integers, Sequences, FiniteSets, TLC

\* ------------------------------------------------------------------ bounds
\* largest integer the platform linger file may hold in the model
MaxFinTimeout == 5
\* largest number of rows of the OS TCP connection table in the model
MaxConns == 2

\* ------------------------------------------------------- program constants
MinPort == 1024
MaxPort == 65535
\* _get_time_wait_timeout's default
DefaultFinTimeout == 60
\* validate_port's default when the inspector gives no duration
DefaultWaitSeconds == 60

\* ------------------------------------------------------------ option values
\* Python's None / a present value
None == <<>>
Some(v) == <<v>>
Val(o) == o[1]

\* ------------------------------------------------------------------- inputs
Ports == {MinPort - 1, MinPort, MaxPort, MaxPort + 1}
OtherPort(p) == p + 1
EnvValues == {None, Some("0"), Some("1")}
Statuses == {"TIME_WAIT", "ESTABLISHED"}
Conns(p) ==
  [lport : {p, OtherPort(p)},
   rport : {None, Some(p), Some(OtherPort(p))},
   status : Statuses]
ConnTables(p) == {t \in SUBSET Conns(p) : Cardinality(t) <= MaxConns}
PsutilStates == {"ok", "missing", "denied"}
FinFiles ==
  {[state |-> s, value |-> 0] : s \in {"absent", "unreadable", "garbage"}}
    \cup {[state |-> "int", value |-> n] : n \in (0 - 1)..MaxFinTimeout}
LoginReturns == {"subscriptions"}
\* a message: its text, the port it names (0: none), the message it wraps ("": none)
Msg(text, p, inner) == [text |-> text, port |-> p, inner |-> inner]
Messages == {Msg("boom", 0, "")}

\* --------------------------------------------------------------- exceptions
Exc(cls, msg) == [cls |-> cls, msg |-> msg]
CLIError(msg) == Exc("CLIError", msg)
InvalidPort(p) == CLIError(Msg("Invalid port number", p, ""))
PortInUse(p) == CLIError(Msg("Port is not available", p, ""))
PortStillUnavailable(p) == CLIError(Msg("Port is still not available after waiting", p, ""))
LoginCancelled(p) == CLIError(Msg("Login cancelled", p, ""))
KeyboardInterrupt == Exc("KeyboardInterrupt", Msg("", 0, ""))
\* validate_port returned normally
Ok == Exc("ok", Msg("", 0, ""))
IsException_AnyBase(e) == TRUE

\* isinstance(e, Exception): KeyboardInterrupt derives from BaseException only
IsException(e) == e.cls # "KeyboardInterrupt"

VARIABLES
  pc,            \* position in login_ssh / validate_port
  port,          \* oidc_redirect_port
  env,           \* os.environ.get('AZURE_CLI_DISABLE_MSAL_HTTP_CACHE')
  envBefore,     \* the toggle's value when login_ssh was called
  cacheExists,   \* ~/.azure/msal_http_cache.bin exists
  cacheBefore,   \* whether it existed when login_ssh was called
  msalImportable,   \* `from msal import PublicClientApplication` succeeds
  canLaunchExists,  \* azure.cli.core.util has the attribute can_launch_browser
  \* validate_port
  is_time_wait,  \* None until the inspector has answered
  wait_seconds, remaining,
  probes,        \* calls of validate_port_available
  lastProbe,     \* result of the latest completed probe (None before any)
  inspections,   \* calls of check_port_time_wait
  ticks,         \* wait-loop iterations started
  sleeps,        \* calls of time.sleep(1)
  firstAvail,    \* wait-loop tick whose probe first reported available (0: none)
  cancelled,     \* a KeyboardInterrupt was delivered inside the wait protocol
  vpResult,      \* None while running; Some(Ok) or Some(exception)
  \* login_ssh
  original_use_http_cache,
  unlinks,       \* calls of msal_http_cache.unlink()
  envWrites,     \* writes of the toggle before the restore step
  restores,      \* executions of the finally block
  patches,       \* the list `patches`
  active,        \* patches entered on the ExitStack and not yet released
  applyLog, releaseLog,
  loginCalls,    \* invocations of original_login
  pending,       \* None, or Some(outcome) travelling to the caller
  result,        \* None until login_ssh has exited
  raisedByLogin, \* None, or Some(exception) as original_login raised it
  \* one call of a patched function or of the inspector, on its own
  fnIn,          \* None, or Some(the call's arguments)
  fnOut          \* None, or Some(what the call returned and did)

vpVars == <<is_time_wait, wait_seconds, remaining, probes, lastProbe, inspections,
            ticks, sleeps, firstAvail, cancelled, vpResult>>
envVars == <<env, envBefore, original_use_http_cache, envWrites, restores>>
worldVars == <<port, msalImportable, canLaunchExists, cacheBefore, fnIn, fnOut>>
patchVars == <<patches, active, applyLog, releaseLog>>
loginVars == <<unlinks, cacheExists, loginCalls, pending, result>>
vars == <<pc, vpVars, envVars, worldVars, patchVars, loginVars, raisedByLogin>>

Returned(v) == [kind |-> "returned", value |-> v]
Raised(e) == [kind |-> "raised", exc |-> e]

Init ==
  /\ pc = "validate"
  /\ port \in Ports
  /\ env \in EnvValues
  /\ envBefore = env
  /\ cacheExists \in BOOLEAN
  /\ cacheBefore = cacheExists
  /\ msalImportable \in BOOLEAN
  /\ canLaunchExists \in BOOLEAN
  /\ is_time_wait = None
  /\ wait_seconds = None
  /\ remaining = 0
  /\ probes = 0
  /\ lastProbe = None
  /\ inspections = 0
  /\ ticks = 0
  /\ sleeps = 0
  /\ firstAvail = 0
  /\ cancelled = FALSE
  /\ vpResult = None
  /\ original_use_http_cache = None
  /\ unlinks = 0
  /\ envWrites = 0
  /\ restores = 0
  /\ patches = <<>>
  /\ active = <<>>
  /\ applyLog = <<>>
  /\ releaseLog = <<>>
  /\ loginCalls = 0
  /\ pending = None
  /\ result = None
  /\ raisedByLogin = None
  /\ fnIn = None
  /\ fnOut = None

\* ============================================================ inspector
\* _get_time_wait_timeout: the platform file's integer, else 60
_get_time_wait_timeout(fin) ==
  IF fin.state = "int" THEN fin.value ELSE DefaultFinTimeout

ConnInvolvesPort_LocalOnly(c, p) == c.lport = p

\* `conn.laddr.port == port or (conn.raddr and conn.raddr.port == port)`
ConnInvolvesPort(c, p) ==
  \/ c.lport = p
  \/ (c.rport # None /\ Val(c.rport) = p)

\* check_port_time_wait: <<is_time_wait, remaining_seconds>>
check_port_time_wait(p, psutil, table, fin) ==
  IF psutil = "missing" THEN <<FALSE, None>>
  ELSE IF psutil = "denied" THEN <<FALSE, None>>
  ELSE IF \E c \in table : ConnInvolvesPort(c, p) /\ c.status = "TIME_WAIT"
       THEN <<TRUE, Some(_get_time_wait_timeout(fin))>>
       ELSE <<FALSE, None>>

\* ======================================================== validate_port
InRange_Exclusive(p) == MinPort < p /\ p < MaxPort

\* `1024 <= port <= 65535`
InRange(p) == MinPort <= p /\ p <= MaxPort

\* `if wait_seconds is None: wait_seconds = 60`
WaitBudget(ws) == IF ws = None THEN DefaultWaitSeconds ELSE Val(ws)

LoopRuns_StopsEarly(r) == r > 1
LoopRuns_Always(r) == TRUE

\* `for remaining in range(wait_seconds, 0, -1)`: the loop body runs for this value
LoopRuns(r) == r > 0

FirstProbeReturns_Never(avail) == FALSE

\* `if not validate_port_available(port):` the first probe decides whether to go on
FirstProbeReturns(avail) == avail

EntersWait_Always(tw) == TRUE

\* `if is_time_wait:` the wait protocol is entered
EntersWait(tw) == tw

TickReturns_Never(avail) == FALSE

\* `if validate_port_available(port): ... return` inside the loop
TickReturns(avail) == avail

OnWaitInterrupt_Reraise(p) == KeyboardInterrupt

\* `except KeyboardInterrupt: raise CLIError('Login cancelled ...')`
OnWaitInterrupt(p) == LoginCancelled(p)

\* line 95-99
RangeCheck ==
  /\ pc = "validate"
  /\ IF InRange(port)
       THEN pc' = "probe" /\ vpResult' = vpResult
       ELSE pc' = "validated" /\ vpResult' = Some(InvalidPort(port))
  /\ UNCHANGED <<is_time_wait, wait_seconds, remaining, probes, lastProbe, inspections,
                 ticks, sleeps, firstAvail, cancelled>>
  /\ UNCHANGED <<envVars, worldVars, raisedByLogin, patchVars, loginVars>>

\* line 101: the first bind probe
FirstProbe ==
  /\ pc = "probe"
  /\ \E avail \in BOOLEAN :
       /\ probes' = probes + 1
       /\ lastProbe' = Some(avail)
       /\ IF FirstProbeReturns(avail)
            THEN pc' = "validated" /\ vpResult' = Some(Ok)
            ELSE pc' = "inspect" /\ vpResult' = vpResult
  /\ UNCHANGED <<is_time_wait, wait_seconds, remaining, inspections,
                 ticks, sleeps, firstAvail, cancelled>>
  /\ UNCHANGED <<envVars, worldVars, raisedByLogin, patchVars, loginVars>>

\* line 103-113 and 143-150: ask the inspector, then fail fast or start waiting
Inspect ==
  /\ pc = "inspect"
  /\ \E psutil \in PsutilStates, table \in ConnTables(port), fin \in FinFiles :
       LET r == check_port_time_wait(port, psutil, table, fin) IN
         /\ inspections' = inspections + 1
         /\ is_time_wait' = Some(r[1])
         /\ IF EntersWait(r[1])
              THEN /\ wait_seconds' = Some(WaitBudget(r[2]))
                   /\ remaining' = WaitBudget(r[2])
                   /\ pc' = "loop"
                   /\ vpResult' = vpResult
              ELSE /\ wait_seconds' = r[2]
                   /\ remaining' = remaining
                   /\ pc' = "validated"
                   /\ vpResult' = Some(PortInUse(port))
  /\ UNCHANGED <<probes, lastProbe, ticks, sleeps, firstAvail, cancelled>>
  /\ UNCHANGED <<envVars, worldVars, raisedByLogin, patchVars, loginVars>>

\* line 101-103 outside the try block: an interrupt is not converted
InterruptBeforeWait ==
  /\ pc \in {"probe", "inspect"}
  /\ probes' = IF pc = "probe" THEN probes + 1 ELSE probes
  /\ inspections' = IF pc = "inspect" THEN inspections + 1 ELSE inspections
  /\ vpResult' = Some(KeyboardInterrupt)
  /\ pc' = "validated"
  /\ UNCHANGED <<is_time_wait, wait_seconds, remaining, lastProbe,
                 ticks, sleeps, firstAvail, cancelled>>
  /\ UNCHANGED <<envVars, worldVars, raisedByLogin, patchVars, loginVars>>

\* line 116-120: one tick's re-probe
WaitProbe ==
  /\ pc = "loop"
  /\ LoopRuns(remaining)
  /\ \E avail \in BOOLEAN :
       /\ ticks' = ticks + 1
       /\ probes' = probes + 1
       /\ lastProbe' = Some(avail)
       /\ firstAvail' = IF avail /\ firstAvail = 0 THEN ticks + 1 ELSE firstAvail
       /\ IF TickReturns(avail)
            THEN pc' = "validated" /\ vpResult' = Some(Ok)
            ELSE pc' = "sleep" /\ vpResult' = vpResult
  /\ UNCHANGED <<is_time_wait, wait_seconds, remaining, inspections, sleeps, cancelled>>
  /\ UNCHANGED <<envVars, worldVars, raisedByLogin, patchVars, loginVars>>

\* line 122-125: countdown print and one-second sleep
WaitSleep ==
  /\ pc = "sleep"
  /\ sleeps' = sleeps + 1
  /\ remaining' = remaining - 1
  /\ pc' = "loop"
  /\ UNCHANGED <<is_time_wait, wait_seconds, probes, lastProbe, inspections,
                 ticks, firstAvail, cancelled, vpResult>>
  /\ UNCHANGED <<envVars, worldVars, raisedByLogin, patchVars, loginVars>>

FinalCheck_ReturnsAnyway ==
  /\ pc = "loop"
  /\ ~LoopRuns(remaining)
  /\ \E avail \in BOOLEAN :
       /\ probes' = probes + 1
       /\ lastProbe' = Some(avail)
       /\ vpResult' = Some(Ok)
  /\ pc' = "validated"
  /\ UNCHANGED <<is_time_wait, wait_seconds, remaining, inspections,
                 ticks, sleeps, firstAvail, cancelled>>
  /\ UNCHANGED <<envVars, worldVars, raisedByLogin, patchVars, loginVars>>

\* line 127-136: the budget is exhausted, one final probe
FinalCheck ==
  /\ pc = "loop"
  /\ ~LoopRuns(remaining)
  /\ \E avail \in BOOLEAN :
       /\ probes' = probes + 1
       /\ lastProbe' = Some(avail)
       /\ vpResult' = IF avail THEN Some(Ok) ELSE Some(PortStillUnavailable(port))
  /\ pc' = "validated"
  /\ UNCHANGED <<is_time_wait, wait_seconds, remaining, inspections,
                 ticks, sleeps, firstAvail, cancelled>>
  /\ UNCHANGED <<envVars, worldVars, raisedByLogin, patchVars, loginVars>>

\* line 138-142: KeyboardInterrupt inside the try block (during a probe of the
\* loop or the final one, the countdown print, or the sleep)
WaitInterrupt ==
  /\ pc \in {"loop", "sleep"}
  /\ \E inCall \in BOOLEAN :
       /\ probes' = IF pc = "loop" THEN probes + 1 ELSE probes
       /\ ticks' = IF pc = "loop" /\ LoopRuns(remaining) THEN ticks + 1 ELSE ticks
       /\ sleeps' = IF pc = "sleep" /\ inCall THEN sleeps + 1 ELSE sleeps
  /\ cancelled' = TRUE
  /\ vpResult' = Some(OnWaitInterrupt(port))
  /\ pc' = "validated"
  /\ UNCHANGED <<is_time_wait, wait_seconds, remaining, lastProbe, inspections, firstAvail>>
  /\ UNCHANGED <<envVars, worldVars, raisedByLogin, patchVars, loginVars>>

ValidateStep ==
  \/ RangeCheck
  \/ FirstProbe
  \/ Inspect
  \/ InterruptBeforeWait
  \/ WaitProbe
  \/ WaitSleep
  \/ FinalCheck
  \/ WaitInterrupt

\* ============================================================ login_ssh
PatchAcquire == "PublicClientApplication.acquire_token_interactive"
PatchOpen == "webbrowser.open"
PatchGet == "webbrowser.get"
PatchCanLaunch == "azure.cli.core.util.can_launch_browser"

create_webbrowser_patches_OpenOnly == <<PatchOpen>>

\* create_webbrowser_patches: the two patch objects, in list order
create_webbrowser_patches == <<PatchOpen, PatchGet>>

\* create_can_launch_browser_patch: unittest.mock.patch(target, new) only records
\* the target; it imports nothing and reads no attribute, so it cannot raise
\* ImportError or AttributeError here
create_can_launch_browser_patch == <<PatchCanLaunch>>

\* patch.__enter__ resolves the target and raises AttributeError when the
\* attribute is missing; of the four targets only can_launch_browser can be missing
\* (webbrowser.open/get are standard library, acquire_token_interactive was read
\* at line 236)
TargetExists(p) == p = PatchCanLaunch => canLaunchExists

NextRelease_Oldest(stack) == 1

\* ExitStack.__exit__ releases the most recently entered context first
NextRelease(stack) == Len(stack)

HandleLoginException_NoWrap(e) == e

\* line 273-277: `except Exception as e`
HandleLoginException(e) ==
  IF ~IsException(e) THEN e
  ELSE IF e.cls = "CLIError" THEN e
  ELSE CLIError(Msg("Login failed: ", 0, e.msg.text))

RestoredEnv_AlwaysUnset(orig) == None

\* line 279-284: the value the finally block leaves in the toggle
RestoredEnv(orig) == IF orig = None THEN None ELSE Some(Val(orig))

ValidationPassed_Always(r) == TRUE

\* line 212: the statements after the call run only when validate_port returned
ValidationPassed(r) == r = Some(Ok)

\* line 212: validate_port has returned or raised
AfterValidate ==
  /\ pc = "validated"
  /\ IF ValidationPassed(vpResult)
       THEN pc' = "cache" /\ result' = result
       ELSE pc' = "done" /\ result' = Some(Raised(Val(vpResult)))
  /\ UNCHANGED <<unlinks, cacheExists, loginCalls, pending>>
  /\ UNCHANGED <<vpVars, envVars, worldVars, raisedByLogin, patchVars>>

\* line 216-221: best-effort deletion of the cache file
RemoveCache ==
  /\ pc = "cache"
  /\ IF cacheExists
       THEN /\ unlinks' = unlinks + 1
            /\ \E deleted \in BOOLEAN : cacheExists' = ~deleted
       ELSE UNCHANGED <<unlinks, cacheExists>>
  /\ pc' = "env"
  /\ UNCHANGED <<loginCalls, pending, result>>
  /\ UNCHANGED <<vpVars, envVars, worldVars, raisedByLogin, patchVars>>

\* line 224-225: snapshot the toggle, then set it
DisableHttpCache ==
  /\ pc = "env"
  /\ original_use_http_cache' = env
  /\ env' = Some("1")
  /\ envWrites' = envWrites + 1
  /\ pc' = "build_msal"
  /\ UNCHANGED <<envBefore, restores>>
  /\ UNCHANGED <<vpVars, worldVars, raisedByLogin, patchVars, loginVars>>

BuildMsalPatch_IgnoresImportError ==
  /\ pc = "build_msal"
  /\ IF msalImportable
       THEN /\ patches' = <<PatchAcquire>>
            /\ pending' = pending
            /\ pc' = "build_rest"
       ELSE /\ patches' = <<>>
            /\ pending' = pending
            /\ pc' = "build_rest"
  /\ UNCHANGED <<active, applyLog, releaseLog>>
  /\ UNCHANGED <<unlinks, cacheExists, loginCalls, result>>
  /\ UNCHANGED <<vpVars, envVars, worldVars, raisedByLogin>>

\* line 229-247: the acquisition patch, or DependencyMissing
BuildMsalPatch ==
  /\ pc = "build_msal"
  /\ IF msalImportable
       THEN /\ patches' = <<PatchAcquire>>
            /\ pending' = pending
            /\ pc' = "build_rest"
       ELSE /\ patches' = <<>>
            /\ pending' = Some(Raised(CLIError(Msg("MSAL library not found", 0, ""))))
            /\ pc' = "finally"
  /\ UNCHANGED <<active, applyLog, releaseLog>>
  /\ UNCHANGED <<unlinks, cacheExists, loginCalls, result>>
  /\ UNCHANGED <<vpVars, envVars, worldVars, raisedByLogin>>

\* line 249-257: the web browser patches and the can_launch_browser patch
BuildBrowserPatches ==
  /\ pc = "build_rest"
  /\ patches' = patches \o create_webbrowser_patches \o create_can_launch_browser_patch
  /\ pc' = "enter"
  /\ UNCHANGED <<active, applyLog, releaseLog>>
  /\ UNCHANGED <<vpVars, envVars, worldVars, raisedByLogin, loginVars>>

\* line 261-263: stack.enter_context(p) for the next patch of the list
EnterPatch ==
  /\ pc = "enter"
  /\ Len(active) < Len(patches)
  /\ LET p == patches[Len(active) + 1] IN
       IF TargetExists(p)
         THEN /\ active' = Append(active, p)
              /\ applyLog' = Append(applyLog, p)
              /\ pending' = pending
              /\ pc' = "enter"
         ELSE /\ UNCHANGED <<active, applyLog>>
              /\ pending' = Some(Raised(Exc("AttributeError", Msg("does not have the attribute", 0, p))))
              /\ pc' = "exit_stack"
  /\ UNCHANGED <<patches, releaseLog>>
  /\ UNCHANGED <<unlinks, cacheExists, loginCalls, result>>
  /\ UNCHANGED <<vpVars, envVars, worldVars, raisedByLogin>>

\* line 265-271: every patch is entered; call original_login
CallLogin ==
  /\ pc = "enter"
  /\ Len(active) = Len(patches)
  /\ loginCalls' = loginCalls + 1
  /\ pc' = "login"
  /\ UNCHANGED <<unlinks, cacheExists, pending, result>>
  /\ UNCHANGED <<vpVars, envVars, worldVars, raisedByLogin, patchVars>>

\* original_login returns a value
LoginReturn ==
  /\ pc = "login"
  /\ \E v \in LoginReturns : pending' = Some(Returned(v))
  /\ pc' = "exit_stack"
  /\ UNCHANGED <<unlinks, cacheExists, loginCalls, result>>
  /\ UNCHANGED <<vpVars, envVars, worldVars, raisedByLogin, patchVars>>

LoginRaise_RetryOnce ==
  /\ pc = "login"
  /\ \E e \in {Exc(c, m) : c \in {"CLIError", "ValueError"}, m \in Messages}
                \cup {KeyboardInterrupt} :
       /\ pending' = Some(Raised(e))
       /\ raisedByLogin' = Some(e)
  /\ pc' = IF loginCalls < 2 THEN "enter" ELSE "exit_stack"
  /\ UNCHANGED <<unlinks, cacheExists, loginCalls, result>>
  /\ UNCHANGED <<vpVars, envVars, worldVars, patchVars>>

\* original_login raises, or the user interrupts it
LoginRaise ==
  /\ pc = "login"
  /\ \E e \in {Exc(c, m) : c \in {"CLIError", "ValueError"}, m \in Messages}
                \cup {KeyboardInterrupt} :
       /\ pending' = Some(Raised(e))
       /\ raisedByLogin' = Some(e)
  /\ pc' = "exit_stack"
  /\ UNCHANGED <<unlinks, cacheExists, loginCalls, result>>
  /\ UNCHANGED <<vpVars, envVars, worldVars, patchVars>>

\* ExitStack.__exit__: release one entered patch
ReleasePatch ==
  /\ pc = "exit_stack"
  /\ active # <<>>
  /\ LET i == NextRelease(active) IN
       /\ releaseLog' = Append(releaseLog, active[i])
       /\ active' = [j \in 1..(Len(active) - 1) |-> IF j < i THEN active[j] ELSE active[j + 1]]
  /\ UNCHANGED <<patches, applyLog>>
  /\ UNCHANGED <<pc, vpVars, envVars, worldVars, raisedByLogin, loginVars>>

\* line 273-277: the with block has been left
LeaveWith ==
  /\ pc = "exit_stack"
  /\ active = <<>>
  /\ pending' = IF Val(pending).kind = "raised"
                  THEN Some(Raised(HandleLoginException(Val(pending).exc)))
                  ELSE pending
  /\ pc' = "finally"
  /\ UNCHANGED <<unlinks, cacheExists, loginCalls, result>>
  /\ UNCHANGED <<vpVars, envVars, worldVars, raisedByLogin, patchVars>>

\* line 279-284: restore the toggle; the outcome reaches the caller
RestoreEnv ==
  /\ pc = "finally"
  /\ env' = RestoredEnv(original_use_http_cache)
  /\ restores' = restores + 1
  /\ result' = pending
  /\ pending' = None
  /\ pc' = "done"
  /\ UNCHANGED <<envBefore, original_use_http_cache, envWrites>>
  /\ UNCHANGED <<unlinks, cacheExists, loginCalls>>
  /\ UNCHANGED <<vpVars, worldVars, raisedByLogin, patchVars>>

LoginStep ==
  \/ AfterValidate
  \/ RemoveCache
  \/ DisableHttpCache
  \/ BuildMsalPatch
  \/ BuildBrowserPatches
  \/ EnterPatch
  \/ CallLogin
  \/ LoginReturn
  \/ LoginRaise
  \/ ReleasePatch
  \/ LeaveWith
  \/ RestoreEnv

Next == ValidateStep \/ LoginStep

Spec == Init /\ [][Next]_vars

\* a sequential program always takes its next step: probes, sleeps and the
\* delegated login return or raise
FairSpec == Spec /\ WF_vars(Next)

\* ================================================== the patched functions
\* PublicClientApplication.acquire_token_interactive before patching: opaque, so
\* it is modelled by what it was called with and a return value made from that
original_acquire(self, args, kwargs) ==
  [self |-> self, args |-> args, kwargs |-> kwargs,
   ret |-> [token_for |-> self, scopes |-> args, options |-> kwargs]]

patched_acquire_KeepsCallerPort(p, self, args, kwargs) ==
  original_acquire(self, args,
    IF kwargs.port = None THEN [kwargs EXCEPT !.port = Some(p)] ELSE kwargs)

\* line 239-241: `kwargs['port'] = oidc_redirect_port`, then forward
patched_acquire(p, self, args, kwargs) ==
  original_acquire(self, args, [kwargs EXCEPT !.port = Some(p)])

\* the attribute the delegated login finds on PublicClientApplication
acquire_token_interactive(stack, p, self, args, kwargs) ==
  IF \E i \in 1..Len(stack) : stack[i] = PatchAcquire
    THEN patched_acquire(p, self, args, kwargs)
    ELSE original_acquire(self, args, kwargs)

\* `"=" * 70`
BannerWidth == 70
Banner == [char |-> "=", width |-> BannerWidth]
Line(text) == [char |-> text, width |-> 1]

patched_open_ReturnsNothing(url, new, autoraise) ==
  [ret |-> FALSE,
   stdout |-> <<Line(""), Banner, Line("To sign in, use a web browser to open the page:"),
                Banner, Line(url), Banner, Line("")>>,
   stderr |-> <<>>,
   launched |-> FALSE]

\* line 160-167: five print() calls without file=, so to sys.stdout; return True
patched_open(url, new, autoraise) ==
  [ret |-> TRUE,
   stdout |-> <<Line(""), Banner, Line("To sign in, use a web browser to open the page:"),
                Banner, Line(url), Banner, Line("")>>,
   stderr |-> <<>>,
   launched |-> FALSE]

\* line 169-177: webbrowser.get(using) gives a MockBrowser
patched_get(using) == [name |-> "url_display"]

\* line 174-175: MockBrowser.open
MockBrowser_open(handle, url, new, autoraise) == patched_open(url, new, autoraise)

\* ---------------------------------------------------- inputs of single calls
Selves == {"app"}
ArgLists == {<<>>, <<"scope">>, <<"scope", "hint">>}
\* keyword arguments: each key is absent (None) or present with a value
Kwargs(p) ==
  [port : {None, Some(p), Some(OtherPort(p))},
   prompt : {None, Some("select_account")}]
Urls == {"https://login.microsoftonline.com/authorize", ""}
NewModes == {0, 1, 2}
AcquireCalls(p) ==
  {[fn |-> "acquire", self |-> sf, args |-> a, kwargs |-> k] :
     sf \in Selves, a \in ArgLists, k \in Kwargs(p)}
OpenCalls ==
  {[fn |-> f, url |-> u, new |-> n, autoraise |-> r] :
     f \in {"open", "get.open"}, u \in Urls, n \in NewModes, r \in BOOLEAN}
InspectCalls(p) ==
  {[fn |-> "inspect", psutil |-> ps, table |-> t, fin |-> fi] :
     ps \in PsutilStates, t \in ConnTables(p), fi \in FinFiles}

\* one call of one of the functions, with login_ssh's port as the configured port
InitCalls ==
  /\ pc = "call"
  /\ port \in {MinPort, MaxPort}
  /\ fnIn \in {Some(c) : c \in AcquireCalls(port) \cup OpenCalls \cup InspectCalls(port)}
  /\ fnOut = None
  /\ env = None
  /\ envBefore = env
  /\ cacheExists = FALSE
  /\ cacheBefore = cacheExists
  /\ msalImportable = TRUE
  /\ canLaunchExists = TRUE
  /\ is_time_wait = None
  /\ wait_seconds = None
  /\ remaining = 0
  /\ probes = 0
  /\ lastProbe = None
  /\ inspections = 0
  /\ ticks = 0
  /\ sleeps = 0
  /\ firstAvail = 0
  /\ cancelled = FALSE
  /\ vpResult = None
  /\ original_use_http_cache = None
  /\ unlinks = 0
  /\ envWrites = 0
  /\ restores = 0
  /\ patches = <<PatchAcquire>> \o create_webbrowser_patches \o create_can_launch_browser_patch
  /\ active = patches
  /\ applyLog = patches
  /\ releaseLog = <<>>
  /\ loginCalls = 0
  /\ pending = None
  /\ result = None
  /\ raisedByLogin = None

callFrame == <<pc, vpVars, envVars, patchVars, loginVars, raisedByLogin,
               port, msalImportable, canLaunchExists, cacheBefore, fnIn>>

\* the delegated login calls acquire_token_interactive while the patches are active
CallAcquire ==
  /\ fnOut = None
  /\ fnIn # None /\ Val(fnIn).fn = "acquire"
  /\ fnOut' = Some(acquire_token_interactive(active, port, Val(fnIn).self,
                                             Val(fnIn).args, Val(fnIn).kwargs))
  /\ UNCHANGED callFrame

\* webbrowser.open(url, new, autoraise) while patched
CallOpen ==
  /\ fnOut = None
  /\ fnIn # None /\ Val(fnIn).fn = "open"
  /\ fnOut' = Some(patched_open(Val(fnIn).url, Val(fnIn).new, Val(fnIn).autoraise))
  /\ UNCHANGED callFrame

\* webbrowser.get().open(url, new, autoraise) while patched
CallGetOpen ==
  /\ fnOut = None
  /\ fnIn # None /\ Val(fnIn).fn = "get.open"
  /\ fnOut' = Some(MockBrowser_open(patched_get(None), Val(fnIn).url, Val(fnIn).new,
                                    Val(fnIn).autoraise))
  /\ UNCHANGED callFrame

\* check_port_time_wait(port), and the branch validate_port takes on its answer
CallInspect ==
  /\ fnOut = None
  /\ fnIn # None /\ Val(fnIn).fn = "inspect"
  /\ LET r == check_port_time_wait(port, Val(fnIn).psutil, Val(fnIn).table, Val(fnIn).fin)
     IN fnOut' = Some([is_time_wait |-> r[1], remaining_seconds |-> r[2],
                       raises |-> IF EntersWait(r[1]) THEN None ELSE Some(PortInUse(port))])
  /\ UNCHANGED callFrame

NextCalls == CallAcquire \/ CallOpen \/ CallGetOpen \/ CallInspect

SpecCalls == InitCalls /\ [][NextCalls]_vars

\* ================================================================ claims
Max(a, b) == IF a >= b THEN a ELSE b
Reverse(q) == [i \in 1..Len(q) |-> q[Len(q) + 1 - i]]
Exited == pc = "done"
ValidateFailed == vpResult # None /\ vpResult # Some(Ok)
ValidatePcs == {"validate", "probe", "inspect", "loop", "sleep", "validated"}

\* C1: on every exit path of login_ssh the toggle AZURE_CLI_DISABLE_MSAL_HTTP_CACHE
\* equals its value before the call (same string, or unset), and the restore step
\* has run exactly once in a call that wrote the toggle, never otherwise.
C1_EnvRestored ==
  /\ restores <= envWrites
  /\ envWrites <= 1
  /\ Exited => (env = envBefore /\ restores = envWrites)

C1_Witness ==
  /\ Exited
  /\ envBefore = Some("0")
  /\ envWrites = 1
  /\ result = Some(Raised(KeyboardInterrupt))

\* C2: after login_ssh exits no patch is active, and the patches that were applied
\* were released in the reverse of the order of application, the acquisition patch
\* applied first and released last.
C2_PatchesReleasedInReverse ==
  Exited =>
    /\ active = <<>>
    /\ releaseLog = Reverse(applyLog)
    /\ applyLog # <<>> =>
         (applyLog[1] = PatchAcquire /\ releaseLog[Len(releaseLog)] = PatchAcquire)

C2_Witness ==
  /\ Exited
  /\ applyLog = <<PatchAcquire, PatchOpen, PatchGet>>
  /\ result # None /\ Val(result).kind = "raised"

C4_ReturnsOnFirstAvailableTick ==
  firstAvail >= 1 =>
    /\ firstAvail <= Val(wait_seconds)
    /\ vpResult = Some(Ok)
    /\ lastProbe = Some(TRUE)
    /\ ticks = firstAvail
    /\ sleeps = firstAvail - 1
    /\ probes = firstAvail + 1

C4_Witness ==
  /\ Exited
  /\ wait_seconds = Some(5)
  /\ firstAvail = 3
  /\ ticks = 3

\* C5 as stated: when the budget of N seconds elapses with the port never
\* available, validate_port fails with PortStillUnavailable after N+1 probes.
C5_Original ==
  vpResult = Some(PortStillUnavailable(port)) => probes = Val(wait_seconds) + 1

\* C5 (amended): when the budget of N seconds elapses with the port never
\* available, validate_port fails with PortStillUnavailable; the wait protocol has
\* then made max(N,0) loop probes, max(N,0) sleeps and one final probe, which with
\* the first probe before the wait is max(N,0)+2 probes in all.
C5_ProbesWhenBudgetElapses ==
  /\ vpResult = Some(PortStillUnavailable(port)) =>
       /\ lastProbe = Some(FALSE)
       /\ firstAvail = 0
       /\ ticks = Max(Val(wait_seconds), 0)
       /\ sleeps = Max(Val(wait_seconds), 0)
       /\ probes = Max(Val(wait_seconds), 0) + 2
  /\ (/\ vpResult # None
      /\ is_time_wait = Some(TRUE)
      /\ ~cancelled
      /\ lastProbe = Some(FALSE)) => vpResult = Some(PortStillUnavailable(port))

C5_Witness ==
  /\ Exited
  /\ wait_seconds = Some(3)
  /\ probes = 5
  /\ result = Some(Raised(PortStillUnavailable(port)))

\* C6: a port below 1024 or above 65535 fails with InvalidPort with no bind probe
\* and no inspector call; a port from 1024 to 65535, both included, never fails
\* with InvalidPort.
C6_InvalidPortExactlyOutOfRange ==
  /\ ((port < MinPort \/ port > MaxPort) /\ pc # "validate") =>
       /\ vpResult = Some(InvalidPort(port))
       /\ probes = 0
       /\ inspections = 0
  /\ (MinPort <= port /\ port <= MaxPort) => vpResult # Some(InvalidPort(port))

C6_Witness ==
  /\ Exited
  /\ port = MaxPort + 1
  /\ result = Some(Raised(InvalidPort(port)))
  /\ probes = 0

\* C7: when the first probe reports the port unavailable and the inspector answers
\* "not TIME_WAIT", validate_port fails with PortInUse without a wait-loop tick, a
\* sleep, or a probe beyond the first.
C7_PortInUseFailsFast ==
  is_time_wait = Some(FALSE) =>
    /\ vpResult = Some(PortInUse(port))
    /\ lastProbe = Some(FALSE)
    /\ probes = 1
    /\ inspections = 1
    /\ ticks = 0
    /\ sleeps = 0

C7_Witness ==
  /\ Exited
  /\ is_time_wait = Some(FALSE)
  /\ result = Some(Raised(PortInUse(port)))

\* C8: when the first probe of an in-range port reports it available,
\* validate_port returns normally with no wait tick, no sleep, no inspector call,
\* and that probe stays the only one.
C8_AvailableAtOnce ==
  /\ []((probes = 1 /\ lastProbe = Some(TRUE)) =>
          /\ vpResult = Some(Ok)
          /\ ticks = 0
          /\ sleeps = 0
          /\ inspections = 0
          /\ is_time_wait = None
          /\ firstAvail = 0)
  /\ [][(probes = 1 /\ lastProbe = Some(TRUE)) => (probes' = 1 /\ lastProbe' = Some(TRUE))]_vars

C8_Witness ==
  /\ Exited
  /\ probes = 1
  /\ lastProbe = Some(TRUE)
  /\ loginCalls = 1

\* C9: when azure.cli.core.util has no can_launch_browser, only that substitution
\* is skipped: the acquisition, URL-open and browser-handle patches are applied and
\* the delegated login routine is invoked.
C9_MissingPredicateIsSkipped ==
  (Exited /\ vpResult = Some(Ok) /\ msalImportable /\ ~canLaunchExists) =>
    /\ applyLog = <<PatchAcquire, PatchOpen, PatchGet>>
    /\ loginCalls = 1

\* C10: while validate_port is probing or waiting no patch is built or active, the
\* toggle and the cache file are untouched and the login routine is not invoked;
\* when validate_port fails, login_ssh exits with that same failure and all of
\* this still holds.
C10_ValidationBeforeInterception ==
  LET untouched ==
        /\ patches = <<>>
        /\ active = <<>>
        /\ applyLog = <<>>
        /\ env = envBefore
        /\ envWrites = 0
        /\ restores = 0
        /\ unlinks = 0
        /\ cacheExists = cacheBefore
        /\ loginCalls = 0
  IN /\ pc \in ValidatePcs => untouched
     /\ ValidateFailed => untouched
     /\ (ValidateFailed /\ pc \notin ValidatePcs) =>
          (Exited /\ result = Some(Raised(Val(vpResult))))

C10_Witness ==
  /\ Exited
  /\ result = Some(Raised(PortStillUnavailable(port)))
  /\ cacheBefore
  /\ envBefore = None
  /\ sleeps = 2

DependencyMissing == CLIError(Msg("MSAL library not found", 0, ""))
LoginFailed(e) == CLIError(Msg("Login failed: ", 0, e.msg.text))
IsActive(t) == \E i \in 1..Len(active) : active[i] = t
UrlBanner(url) ==
  <<Line(""), Banner, Line("To sign in, use a web browser to open the page:"),
    Banner, Line(url), Banner, Line("")>>
Called(f) == fnOut # None /\ Val(fnIn).fn = f

\* C11: when msal cannot be imported, login_ssh fails with DependencyMissing: no
\* patch is built or applied and the login routine is never invoked, and the
\* toggle is back at its pre-call value before the error reaches the caller.
C11_DependencyMissing ==
  (vpResult = Some(Ok) /\ ~msalImportable) =>
    /\ patches = <<>>
    /\ applyLog = <<>>
    /\ loginCalls = 0
    /\ pending \in {None, Some(Raised(DependencyMissing))}
    /\ result # None =>
         /\ result = Some(Raised(DependencyMissing))
         /\ env = envBefore
         /\ envWrites = 1
         /\ restores = 1

C11_Witness ==
  /\ Exited
  /\ ~msalImportable
  /\ envBefore = Some("0")
  /\ restores = 1
  /\ result = Some(Raised(DependencyMissing))

\* C12: for every positional and keyword argument list, also one that carries its
\* own port, the acquisition substitution calls the original with port equal to
\* the configured port and everything else as given, and returns what the
\* original returned.
C12_AcquireInjectsPort ==
  Called("acquire") =>
    LET c == Val(fnIn)
        o == Val(fnOut)
    IN /\ o.kwargs.port = Some(port)
       /\ o.kwargs.prompt = c.kwargs.prompt
       /\ o.args = c.args
       /\ o.self = c.self
       /\ o.ret = original_acquire(c.self, c.args,
                                   [port |-> Some(port), prompt |-> c.kwargs.prompt]).ret

C12_Witness ==
  /\ Called("acquire")
  /\ Val(fnIn).kwargs.port = Some(OtherPort(port))
  /\ Val(fnIn).args = <<"scope", "hint">>
  /\ Val(fnOut).kwargs.port = Some(port)

\* C13 as stated: the substituted open-URL function and the stand-in handle's open
\* launch no browser, write the banner with the URL to standard error, and return
\* true.
C13_Original ==
  (Called("open") \/ Called("get.open")) =>
    /\ Val(fnOut).ret = TRUE
    /\ ~Val(fnOut).launched
    /\ Val(fnOut).stderr = UrlBanner(Val(fnIn).url)

\* C13 (amended): the substituted open-URL function and the stand-in handle's open
\* launch no browser, write the banner with the URL to standard output (nothing
\* to standard error), and return true, for every URL.
C13_UrlPrintedToStdout ==
  (Called("open") \/ Called("get.open")) =>
    /\ Val(fnOut).ret = TRUE
    /\ ~Val(fnOut).launched
    /\ Val(fnOut).stdout = UrlBanner(Val(fnIn).url)
    /\ Val(fnOut).stderr = <<>>

C13_Witness ==
  /\ Called("get.open")
  /\ Val(fnIn).url = "https://login.microsoftonline.com/authorize"
  /\ Val(fnOut).ret = TRUE
  /\ Val(fnOut).stdout[5] = Line("https://login.microsoftonline.com/authorize")

\* C14: when the delegated login raises, a CLIError reaches the caller unchanged
\* and any other exception reaches it as LoginFailed with the original message;
\* either way every patch is released and the toggle restored before that.
C14_LoginErrors ==
  (raisedByLogin # None /\ result # None) =>
    LET e == Val(raisedByLogin) IN
      /\ e.cls = "CLIError" => result = Some(Raised(e))
      /\ e.cls \notin {"CLIError", "KeyboardInterrupt"} =>
           result = Some(Raised(LoginFailed(e)))
      /\ active = <<>>
      /\ releaseLog = Reverse(applyLog)
      /\ env = envBefore
      /\ restores = 1

C14_Witness ==
  /\ Exited
  /\ raisedByLogin = Some(Exc("ValueError", Msg("boom", 0, "")))
  /\ result = Some(Raised(CLIError(Msg("Login failed: ", 0, "boom"))))
  /\ Len(releaseLog) = 4

\* C15: in one call the delegated login is invoked at most once, and only after
\* validate_port returned normally; nothing but the wait-loop probe repeats, with
\* one sleep per tick and no more ticks than the budget.
C15_LoginCalledAtMostOnce ==
  /\ loginCalls <= 1
  /\ loginCalls = 1 => vpResult = Some(Ok)
  /\ inspections <= 1
  /\ unlinks <= 1
  /\ envWrites <= 1
  /\ restores <= 1
  /\ Len(applyLog) <= Len(patches)
  /\ sleeps <= ticks
  /\ ticks <= sleeps + 1
  /\ IF is_time_wait = Some(TRUE)
       THEN ticks <= Max(Val(wait_seconds), 0) /\ probes <= ticks + 2
       ELSE ticks = 0 /\ probes <= 1

C15_Witness ==
  /\ Exited
  /\ loginCalls = 1
  /\ raisedByLogin # None
  /\ sleeps = 2
  /\ probes = 4

\* C16: validate_port always terminates; with budget N it sleeps at most N times,
\* and when N <= 0 the loop runs no tick and the single final probe decides.
C16_ValidatePortTerminates ==
  /\ <>(vpResult # None)
  /\ [](is_time_wait = Some(TRUE) =>
          /\ sleeps <= Max(Val(wait_seconds), 0)
          /\ ticks <= Max(Val(wait_seconds), 0)
          /\ Val(wait_seconds) <= 0 =>
               /\ ticks = 0
               /\ sleeps = 0
               /\ (vpResult # None /\ ~cancelled) =>
                    /\ probes = 2
                    /\ vpResult = IF lastProbe = Some(TRUE)
                                    THEN Some(Ok)
                                    ELSE Some(PortStillUnavailable(port)))

C16_Witness ==
  /\ Exited
  /\ wait_seconds = Some(0 - 1)
  /\ vpResult = Some(Ok)
  /\ probes = 2
  /\ sleeps = 0

\* C17: check_port_time_wait answers (true, d) exactly when the connection table
\* can be read and has a TIME_WAIT row whose local or remote port is the target,
\* d being the linger file's integer or 60; otherwise, also when psutil is missing
\* or access is denied, it answers (false, none) and validate_port raises PortInUse.
C17_InspectorVerdict ==
  Called("inspect") =>
    LET c == Val(fnIn)
        o == Val(fnOut)
        found == /\ c.psutil = "ok"
                 /\ \E r \in c.table :
                      /\ r.status = "TIME_WAIT"
                      /\ (r.lport = port \/ r.rport = Some(port))
        d == IF c.fin.state = "int" THEN c.fin.value ELSE DefaultFinTimeout
    IN IF found
         THEN /\ o.is_time_wait
              /\ o.remaining_seconds = Some(d)
              /\ o.raises = None
         ELSE /\ ~o.is_time_wait
              /\ o.remaining_seconds = None
              /\ o.raises = Some(PortInUse(port))

C17_Witness ==
  /\ Called("inspect")
  /\ Val(fnIn).psutil = "ok"
  /\ Val(fnIn).table = {[lport |-> OtherPort(port), rport |-> Some(port), status |-> "TIME_WAIT"]}
  /\ Val(fnIn).fin.state = "absent"
  /\ Val(fnOut).is_time_wait
  /\ Val(fnOut).remaining_seconds = Some(DefaultFinTimeout)

\* C18: validate_port returns normally only when its latest probe reported the
\* port available, that probe being its last: the first probe, a wait-loop probe,
\* or the final probe after the budget; otherwise it ends with an error.
C18_ReturnsOnlyWhenAvailable ==
  /\ [](vpResult = Some(Ok) =>
          /\ lastProbe = Some(TRUE)
          /\ \/ probes = 1 /\ is_time_wait = None
             \/ firstAvail >= 1 /\ ticks = firstAvail /\ probes = ticks + 1
             \/ /\ is_time_wait = Some(TRUE)
                /\ firstAvail = 0
                /\ ticks = Max(Val(wait_seconds), 0)
                /\ probes = ticks + 2)
  /\ []((vpResult # None /\ lastProbe # Some(TRUE)) =>
          Val(vpResult).cls \in {"CLIError", "KeyboardInterrupt"})
  /\ [][vpResult = Some(Ok) => (probes' = probes /\ lastProbe' = lastProbe)]_vars

C18_Witness ==
  /\ Exited
  /\ vpResult = Some(Ok)
  /\ is_time_wait = Some(TRUE)
  /\ wait_seconds = Some(2)
  /\ firstAvail = 0
  /\ probes = 4

\* C19: whenever the delegated login is executing, the toggle is '1' and the
\* acquisition, URL-open and browser-handle substitutions are active, so every
\* acquire_token_interactive call it makes reaches the original with the
\* configured port.
C19_LoginRunsIntercepted ==
  pc = "login" =>
    /\ env = Some("1")
    /\ IsActive(PatchAcquire)
    /\ IsActive(PatchOpen)
    /\ IsActive(PatchGet)
    /\ \A sf \in Selves, a \in ArgLists, k \in Kwargs(port) :
         acquire_token_interactive(active, port, sf, a, k).kwargs.port = Some(port)

C19_Witness ==
  /\ pc = "login"
  /\ envBefore = None
  /\ env = Some("1")
  /\ loginCalls = 1

\* C20: a KeyboardInterrupt during the delegated login is neither wrapped as
\* LoginFailed nor turned into LoginCancelled: it reaches the caller as itself,
\* after the applied patches are released and the toggle restored.
C20_InterruptDuringLogin ==
  raisedByLogin = Some(KeyboardInterrupt) =>
    /\ pending \in {None, Some(Raised(KeyboardInterrupt))}
    /\ result # None =>
         /\ result = Some(Raised(KeyboardInterrupt))
         /\ active = <<>>
         /\ releaseLog = Reverse(applyLog)
         /\ Len(releaseLog) = Len(patches)
         /\ env = envBefore
         /\ restores = 1

C20_Witness ==
  /\ Exited
  /\ raisedByLogin = Some(KeyboardInterrupt)
  /\ result = Some(Raised(KeyboardInterrupt))
  /\ envBefore = Some("1")
  /\ Len(releaseLog) = 4

====
